---- MODULE Spec2Model ----
(***************************************************************************)
(* A model of lint/linter.py of SublimeLinter3: the mapping from views to  *)
(* their sets of linter instances (persist.linters), the class methods     *)
(* that change it (assign, remove, reload), a lint_view pass running on a  *)
(* worker thread beside them, and the methods of one instance (reset,      *)
(* lint, find_errors, split_match, error) called on their own.             *)
(*                                                                         *)
(* Strings are sequences of tokens: a syntax setting such as               *)
(* "Packages/Python/Python.tmLanguage" is                                  *)
(* <<"Packages", "/", "Python", "/", "Python", ".tmLanguage">>.            *)
(***************************************************************************)
EXTENDS Integers, Sequences, FiniteSets, TLC

VARIABLES
    views,      \* persist.views: vid -> the view (its 'syntax' setting), for the vids seen
    linters,    \* persist.linters: vid -> set of linter instances (instance ids)
    inst,       \* the heap of linter instances: id -> fields, NoInst when the id is free
    userset,    \* persist.settings 'linters': class name -> its 'disable' entry
    defaults,   \* the 'disable' entry of each class's defaults dict (get_settings updates it)
    prev,       \* history: the last call on the main thread (assign, remove or reload)
    gone,       \* history: the views whose entry was deleted under a lint_view of theirs
    rl,         \* reload's frame on the main thread
    lv,         \* lint_view's frame on the worker thread
    fn          \* the frame of a call of one method on its own: arguments and result

vars == <<views, linters, inst, userset, defaults, prev, gone, rl, lv, fn>>

-----------------------------------------------------------------------------
(* Bounds                                                                   *)

\* the number of instances of one class that exist at a time
MaxInst == 2
\* the views (buffers), by view.id()
Vids == {1, 2}

None == "None"
NoInst == [def |-> None]

-----------------------------------------------------------------------------
(* The registry persist.languages and the attributes of the registered      *)
(* classes                                                                  *)

\* language, cmd, regex, multiline, tab_width, selector, defaults: the public attributes
\* a subclass sets. regex: "ok" compiles, "bad" does not, "" is the unset default.
\* cmd: "ok" a command, "" the unset default, "callable, returns nothing" a function that
\* returns no command. selector: None or a scope selector.
Registry ==
    [ pyflakes |-> [language |-> [tuple |-> FALSE, v |-> <<"python">>],
                    cmd |-> "ok", regex |-> "ok", multiline |-> FALSE, tab_width |-> 1,
                    selector |-> None, module |-> "m1", hasdefaults |-> FALSE],
      pybad    |-> [language |-> [tuple |-> FALSE, v |-> <<"python">>],
                    cmd |-> "ok", regex |-> "bad", multiline |-> FALSE, tab_width |-> 1,
                    selector |-> None, module |-> "m2", hasdefaults |-> FALSE],
      php      |-> [language |-> [tuple |-> TRUE, v |-> <<"html", "php">>],
                    cmd |-> "ok", regex |-> "ok", multiline |-> TRUE, tab_width |-> 1,
                    selector |-> "source.php", module |-> "m1", hasdefaults |-> TRUE],
      phpnocmd |-> [language |-> [tuple |-> FALSE, v |-> <<"php">>],
                    cmd |-> "", regex |-> "ok", multiline |-> FALSE, tab_width |-> 1,
                    selector |-> None, module |-> "m2", hasdefaults |-> FALSE],
      ruby     |-> [language |-> [tuple |-> FALSE, v |-> <<"ruby">>],
                    cmd |-> "ok", regex |-> "ok", multiline |-> FALSE, tab_width |-> 2,
                    selector |-> None, module |-> "m1", hasdefaults |-> FALSE],
      golint   |-> [language |-> [tuple |-> FALSE, v |-> <<"go">>],
                    cmd |-> "ok", regex |-> "ok", multiline |-> FALSE, tab_width |-> 4,
                    selector |-> None, module |-> "m2", hasdefaults |-> FALSE] ]

Names == DOMAIN Registry

\* the identities of linter instances: <<class, k>> is the k-th of the instances of the
\* class that exist at a time
Ids == Names \X (1..MaxInst)

\* str.lower on the names that occur
Lower(tok) ==
    CASE tok = "Python" -> "python"
      [] tok = "HTML" -> "html"
      [] tok = "PHP" -> "php"
      [] tok = "Plain text" -> "plain text"
      [] OTHER -> tok

LowerStr(s) == [i \in 1..Len(s) |-> Lower(s[i])]

\* linter_can_lint without language.lower()
linter_can_lint_cased(cls, language) ==
    IF Registry[cls].language.v # <<>>
    THEN \/ ~Registry[cls].language.tuple /\ language = Registry[cls].language.v
         \/ /\ Registry[cls].language.tuple
            /\ \E i \in 1..Len(Registry[cls].language.v) :
                   <<Registry[cls].language.v[i]>> = language
    ELSE FALSE

\* Linter.linter_can_lint(cls, language)
linter_can_lint(cls, language) ==
    LET lang == LowerStr(language) IN
    IF Registry[cls].language.v # <<>>
    THEN IF ~Registry[cls].language.tuple /\ lang = Registry[cls].language.v
         THEN TRUE
         ELSE IF Registry[cls].language.tuple
                 /\ \E i \in 1..Len(Registry[cls].language.v) :
                        <<Registry[cls].language.v[i]>> = lang
              THEN TRUE
              ELSE FALSE
    ELSE FALSE

can_lint(cls, language) == linter_can_lint(cls, language)

-----------------------------------------------------------------------------
(* Syntax settings                                                          *)

NoSyntax == [set |-> FALSE, s |-> <<>>]
Str(s) == [set |-> TRUE, s |-> s]

\* the values view.settings().get('syntax') takes
SyntaxLabels ==
    { NoSyntax,
      Str(<<>>),
      Str(<<"Packages", "/", "Python", "/", "Python", ".tmLanguage">>),
      Str(<<"Packages", "/", "Python", "/", "python", ".tmLanguage">>),
      Str(<<"Packages", "/", "HTML", "/", "HTML", ".tmLanguage">>),
      Str(<<"Packages", "/", "PHP", "/", "PHP", ".tmLanguage">>),
      Str(<<"Packages", "/", "Text", "/", "Plain text", ".tmLanguage">>),
      Str(<<"Python", ".tmLanguage">>),
      Str(<<"Packages", "/", "HTML", "/", "HTML", ".sublime-syntax">>) }

\* SYNTAX_RE = re.compile(r'/([^/]+)\.tmLanguage$'); SYNTAX_RE.search(s).group(1),
\* <<>> when there is no match
SYNTAX_RE(s) ==
    LET n == Len(s)
        starts == { k \in 1..n : /\ s[k] = "/"
                                 /\ k + 1 <= n - 1
                                 /\ s[n] = ".tmLanguage"
                                 /\ \A j \in (k + 1)..(n - 1) : s[j] # "/" }
    IN  IF starts = {} THEN <<>>
        ELSE LET k == CHOOSE k \in starts : \A m \in starts : k <= m
             IN  SubSeq(s, k + 1, n - 1)

\* lines 122-134 of assign: the syntax name the view's setting resolves to, <<>> for none
ResolveSyntax(label) ==
    IF ~label.set \/ label.s = <<>> THEN <<>> ELSE SYNTAX_RE(label.s)

\* view.file_name()
file_name(vid) == IF vid = 1 THEN "a.py" ELSE None

-----------------------------------------------------------------------------
(* Linter instances                                                         *)

EmptyMap == [r \in {} |-> <<>>]

\* Linter.__init__(self, view, syntax, filename): regex is compiled when it is set and
\* stays the uncompiled string when compiling raises; errors is the class default None
\* (haserrors = FALSE) and highlight a new Highlight()
NewLinter(cls, vid, syntax, filename) ==
    [ def |-> cls, view |-> vid, syntax |-> syntax, filename |-> filename,
      regex |-> IF Registry[cls].regex = "" THEN ""
                ELSE IF Registry[cls].regex = "ok" THEN "compiled" ELSE "str",
      haserrors |-> FALSE, errors |-> EmptyMap,
      cleared |-> FALSE ]

\* Linter.clear(self): erases the instance's marks from its view
clear(l) == [l EXCEPT !.cleared = TRUE]

\* Linter.draw(self): draws the instance's marks on its view
draw(l) == [l EXCEPT !.cleared = FALSE]

\* whether an instance of cls can be created, and the identity it gets
HasFresh(heap, cls) == \E k \in 1..MaxInst : heap[<<cls, k>>] = NoInst

Fresh(heap, cls) ==
    <<cls, CHOOSE k \in 1..MaxInst :
               /\ heap[<<cls, k>>] = NoInst
               /\ \A j \in 1..(k - 1) : heap[<<cls, j>>] # NoInst>>

\* a sequence listing the set S in some order (the order a Python set or dict is
\* iterated in is not specified)
Orders(S) ==
    { q \in [1..Cardinality(S) -> S] : \A i, j \in 1..Cardinality(S) : i # j => q[i] # q[j] }

\* the instances some frame or the mapping still refers to; every other one is freed
Reachable(ls, r, w) ==
    UNION { ls[v] : v \in DOMAIN ls }
      \cup (IF r.pc = "add" THEN {r.cur} ELSE {})
      \cup { w.linters[i] : i \in 1..Len(w.linters) }
      \cup { w.selectors[i] : i \in 1..Len(w.selectors) }

Collect(heap, ls, r, w) ==
    [ i \in Ids |-> IF i \in Reachable(ls, r, w) THEN heap[i] ELSE NoInst ]

-----------------------------------------------------------------------------
(* The frames of the two threads                                            *)

NoId == <<None, 0>>

RlIdle ==
    [pc |-> "idle", mod |-> None, vids |-> {}, vid |-> 0, pending |-> {}, cur |-> NoId]

LvIdle ==
    [ pc |-> "idle", vid |-> 0, filename |-> None, code |-> <<>>, sections |-> <<>>,
      linters |-> <<>>, i |-> 0, selectors |-> <<>>, callbacks |-> 0, raised |-> None,
      merged |-> NoId, regions |-> <<>> ]

\* fn when no method is being called on its own
FnIdle == [op |-> "none"]

\* prev when the last call on the main thread was not an assign
NoCall == [vid |-> 0, again |-> FALSE, had |-> FALSE, orphans |-> FALSE]

\* gone after a call on the main thread that leaves the mapping ls
Gone(ls) ==
    { v \in Vids : /\ v \notin DOMAIN ls
                   /\ \/ v \in gone
                      \/ v \in DOMAIN linters /\ lv.pc \notin {"idle", "done", "raised"}
                                             /\ lv.vid = v }

Init ==
    /\ views = [v \in {} |-> NoSyntax]
    /\ linters = [v \in {} |-> {}]
    /\ inst = [i \in Ids |-> NoInst]
    /\ userset = [n \in Names |-> "absent"]
    /\ defaults = [n \in Names |-> "absent"]
    /\ prev = NoCall
    /\ gone = {}
    /\ rl = RlIdle
    /\ lv = LvIdle
    /\ fn = FnIdle

-----------------------------------------------------------------------------
(* assign and remove (main thread)                                          *)

\* persist.linters without the entry of vid
Without(ls, vid) == [v \in DOMAIN ls \ {vid} |-> ls[v]]

\* persist.linters with the entry of vid set to S
With(ls, vid, S) == [v \in DOMAIN ls \cup {vid} |-> IF v = vid THEN S ELSE ls[v]]

\* remove leaving an empty set where it should delete the entry
RemoveMapEmptied(ls, vid) == IF vid \in DOMAIN ls THEN With(ls, vid, {}) ELSE ls

\* the set persist.linters holds for vid, empty when it holds none
Entry(ls, vid) == IF vid \in DOMAIN ls THEN ls[vid] ELSE {}

\* history: the instances of the set old that the mapping ls holds no more and on which
\* clear had not been called when the mapping was changed, heap being the heap then
Orphans(heap, old, ls) ==
    { l \in old : /\ l \notin UNION { ls[v] : v \in DOMAIN ls }
                  /\ ~heap[l].cleared }

\* remove deleting the entry without the loop of lines 160-161
RemoveHeapNoClear(heap, ls, vid) == heap

\* the body of Linter.remove(vid), lines 159-163: the heap and the mapping it leaves
RemoveHeap(heap, ls, vid) ==
    IF vid \in DOMAIN ls
    THEN [i \in Ids |-> IF i \in ls[vid] THEN clear(heap[i]) ELSE heap[i]]
    ELSE heap

RemoveMap(ls, vid) == IF vid \in DOMAIN ls THEN Without(ls, vid) ELSE ls

\* the test of lines 137-142 made with the lowered syntax name
AlreadyAssignedLowered(vid, syntax, reassign) ==
    /\ vid \in DOMAIN linters
    /\ linters[vid] # {}
    /\ ~reassign
    /\ \E l \in linters[vid] : inst[l].syntax = LowerStr(syntax)

\* lines 137-142 of assign: a linter of the view's set already handles the syntax
AlreadyAssigned(vid, syntax, reassign) ==
    /\ vid \in DOMAIN linters
    /\ linters[vid] # {}
    /\ ~reassign
    /\ \E l \in linters[vid] : inst[l].syntax = syntax

\* lines 146-147 of assign: the registered classes that can lint the syntax
Matching(syntax) == { n \in Names : can_lint(n, syntax) }

\* Linter.assign(view, reassign)
Assign(vid, label, reassign) ==
    LET syntax == ResolveSyntax(label) IN
    /\ rl.pc = "idle"
    /\ views' = With(views, vid, label)
    /\ IF syntax = <<>>
       THEN /\ linters' = RemoveMap(linters, vid)
            /\ inst' = Collect(RemoveHeap(inst, linters, vid), linters', rl, lv)
       ELSE IF AlreadyAssigned(vid, syntax, reassign)
       THEN UNCHANGED <<linters, inst>>
       ELSE LET classes == Matching(syntax)
                new == { Fresh(inst, c) : c \in classes }
                heap == [i \in Ids |->
                           IF i \in new
                           THEN NewLinter(i[1], vid, syntax, file_name(vid))
                           ELSE inst[i]]
            IN  /\ \A c \in classes : HasFresh(inst, c)
                /\ linters' = With(linters, vid, new)
                /\ inst' = Collect(heap, linters', rl, lv)
    /\ prev' = [vid |-> vid,
                again |-> prev.vid = vid /\ views[vid] = label /\ ~reassign,
                had |-> vid \in DOMAIN linters /\ linters[vid] # {},
                orphans |-> Orphans(IF syntax = <<>> THEN RemoveHeap(inst, linters, vid)
                                                    ELSE inst,
                                    Entry(linters, vid), linters') # {}]
    /\ gone' = Gone(linters')
    /\ UNCHANGED <<userset, defaults, rl, lv, fn>>

\* Linter.remove(vid)
Remove(vid) ==
    /\ rl.pc = "idle"
    /\ linters' = RemoveMap(linters, vid)
    /\ prev' = [NoCall EXCEPT !.orphans = Orphans(RemoveHeap(inst, linters, vid),
                                                  Entry(linters, vid), linters') # {}]
    /\ gone' = Gone(linters')
    /\ inst' = Collect(RemoveHeap(inst, linters, vid), linters', rl, lv)
    /\ UNCHANGED <<views, userset, defaults, rl, lv, fn>>

-----------------------------------------------------------------------------
(* Settings                                                                 *)

\* the 'linters' dicts of persist.settings the model draws from: the user's 'disable'
\* entry per class name
UserSettings ==
    { [n \in Names |-> "absent"],
      [n \in Names |-> IF n = "pyflakes" THEN "true" ELSE "absent"],
      [n \in Names |-> IF n = "php" THEN "true" ELSE "absent"] }

\* the user edits the settings file; get_settings reads persist.settings on every call
ChangeSettings(u) ==
    /\ u # userset
    /\ userset' = u
    /\ UNCHANGED <<views, linters, inst, defaults, prev, gone, rl, lv, fn>>

\* Linter.get_settings(cls), lines 103-106: the 'disable' entry of the dict returned.
\* cls.defaults, when it is a non-empty dict, is the very dict that is updated.
get_settings(cls, dflt, user) ==
    IF Registry[cls].hasdefaults
    THEN IF user[cls] # "absent" THEN user[cls] ELSE dflt[cls]
    ELSE user[cls]

\* cls.defaults after get_settings(cls)
DefaultsAfter(cls, dflt, user) ==
    IF Registry[cls].hasdefaults
    THEN [dflt EXCEPT ![cls] = get_settings(cls, dflt, user)]
    ELSE dflt

\* linter.settings.get('disable') is true
Disabled(cls, dflt, user) == get_settings(cls, dflt, user) = "true"

-----------------------------------------------------------------------------
(* reload (main thread). Between the lines of its loop the worker may run.  *)

Modules == { Registry[n].module : n \in Names }

\* Linter.reload(mod), lines 166-178: the call and the start of the iteration over
\* persist.linters.items(). Lines 170-176 store a merged copy of the settings in each
\* class's lint_settings, which nothing in this file reads; it is not kept here.
ReloadCall(mod) ==
    /\ rl.pc = "idle"
    /\ rl' = [RlIdle EXCEPT !.pc = "iter", !.mod = mod, !.vids = DOMAIN linters]
    /\ prev' = NoCall
    /\ UNCHANGED <<views, linters, inst, userset, defaults, gone, lv, fn>>

\* line 178: the next (vid, linters) item
ReloadNextView ==
    /\ rl.pc = "iter"
    /\ rl.pending = {}
    /\ rl.vids # {}
    /\ \E vid \in rl.vids :
         rl' = [rl EXCEPT !.vids = rl.vids \ {vid}, !.vid = vid, !.pending = linters[vid]]
    /\ UNCHANGED <<views, linters, inst, userset, defaults, prev, gone, lv, fn>>

\* lines 179-184: the next linter of the set; it is skipped when it is not of the module
\* asked for, and otherwise cleared and removed from the view's set
ReloadVisit ==
    /\ rl.pc = "iter"
    /\ \E l \in rl.pending :
         IF rl.mod # None /\ Registry[inst[l].def].module # rl.mod
         THEN /\ rl' = [rl EXCEPT !.pending = rl.pending \ {l}]
              /\ UNCHANGED <<linters, inst>>
         ELSE /\ rl' = [rl EXCEPT !.pc = "add", !.cur = l, !.pending = rl.pending \ {l}]
              /\ linters' = [linters EXCEPT ![rl.vid] = linters[rl.vid] \ {l}]
              /\ inst' = [inst EXCEPT ![l] = clear(inst[l])]
    /\ UNCHANGED <<views, userset, defaults, prev, gone, lv, fn>>

\* what the iteration over the set still yields after the set was changed under it: the
\* new instance replaces the old one in the table, so the size check of the iterator
\* passes, and which of the set's members are still ahead of the iterator is not specified
StillAhead(pending, S, new) == SUBSET S

\* lines 185-187 creating the instance without the file name of the one it replaces
ReloadAddNoFilename ==
    /\ rl.pc = "add"
    /\ HasFresh(inst, inst[rl.cur].def)
    /\ LET old == inst[rl.cur]
           new == Fresh(inst, old.def)
           heap == [inst EXCEPT ![new] = draw(NewLinter(old.def, old.view, old.syntax,
                                                          None))]
       IN  /\ linters' = [linters EXCEPT ![rl.vid] = linters[rl.vid] \cup {new}]
           /\ \E P \in StillAhead(rl.pending, linters'[rl.vid], new) :
                rl' = [rl EXCEPT !.pc = "iter", !.cur = NoId, !.pending = P]
           /\ inst' = Collect(heap, linters', rl', lv)
    /\ UNCHANGED <<views, userset, defaults, prev, gone, lv, fn>>

\* lines 185-187: the instance is created again from its class, added to the set and drawn
ReloadAdd ==
    /\ rl.pc = "add"
    /\ HasFresh(inst, inst[rl.cur].def)
    /\ LET old == inst[rl.cur]
           new == Fresh(inst, old.def)
           heap == [inst EXCEPT ![new] = draw(NewLinter(old.def, old.view, old.syntax,
                                                          old.filename))]
       IN  /\ linters' = [linters EXCEPT ![rl.vid] = linters[rl.vid] \cup {new}]
           /\ \E P \in StillAhead(rl.pending, linters'[rl.vid], new) :
                rl' = [rl EXCEPT !.pc = "iter", !.cur = NoId, !.pending = P]
           /\ inst' = Collect(heap, linters', rl', lv)
    /\ UNCHANGED <<views, userset, defaults, prev, gone, lv, fn>>

\* line 189
ReloadReturn ==
    /\ rl.pc = "iter"
    /\ rl.pending = {}
    /\ rl.vids = {}
    /\ rl' = RlIdle
    /\ UNCHANGED <<views, linters, inst, userset, defaults, prev, gone, lv, fn>>

-----------------------------------------------------------------------------
(* Running one linter: reset, lint, find_errors, split_match, error         *)

\* A linter's output is a sequence of lines. Of a line the model keeps what the regex
\* finds in it: whether it matches (m) and the groups line, col, error and near of the
\* match. A group is [k |-> "none"] when it did not take part in the match, else
\* [k |-> "str", v |-> n] with n the number its digits spell (col may be the empty string,
\* k = "empty").
NoGroup == [k |-> "none", v |-> 0]
Num(n) == [k |-> "str", v |-> n]
Miss == [m |-> FALSE, line |-> NoGroup, col |-> NoGroup, error |-> "", near |-> None]
Hit(line, col, msg) == [m |-> TRUE, line |-> line, col |-> col, error |-> msg, near |-> None]

\* split_match leaving the column as the linter counts it, from 1
split_match_col_from_1(match) ==
    IF match.m
    THEN [ match |-> TRUE,
           raised |-> IF match.line.k = "none" THEN "TypeError" ELSE None,
           row |-> [k |-> "int", v |-> match.line.v - 1],
           col |-> IF match.col.k = "str" THEN [k |-> "int", v |-> match.col.v]
                   ELSE match.col,
           error |-> match.error, near |-> match.near ]
    ELSE [ match |-> FALSE, raised |-> None, row |-> NoGroup, col |-> NoGroup,
           error |-> "", near |-> None ]

\* Linter.split_match(match), lines 363-376. int(None) raises TypeError.
split_match(match) ==
    IF match.m
    THEN [ match |-> TRUE,
           raised |-> IF match.line.k = "none" THEN "TypeError" ELSE None,
           row |-> [k |-> "int", v |-> match.line.v - 1],
           col |-> IF match.col.k = "str" THEN [k |-> "int", v |-> match.col.v - 1]
                   ELSE match.col,
           error |-> match.error, near |-> match.near ]
    ELSE [ match |-> FALSE, raised |-> None, row |-> NoGroup, col |-> NoGroup,
           error |-> "", near |-> None ]

\* Linter.match_error(r, line)
match_error(line) == split_match(line)

IsMatch(line) == line.m

\* Linter.find_errors(output), lines 350-361: the results it yields, in order. finditer
\* returns an iterator, which is true whether or not it will yield a match.
find_errors(multiline, output) ==
    IF multiline
    THEN LET errors == SelectSeq(output, IsMatch)
         IN  [i \in 1..Len(errors) |-> split_match(errors[i])]
    ELSE [i \in 1..Len(output) |-> match_error(output[i])]

\* the loop of lines 299-307 counting a tab as tab_width columns more, not tab_width - 1
RECURSIVE TabLoopWholeWidth(_, _, _, _, _)
TabLoopWholeWidth(col, tab_width, code_line, i, diff) ==
    IF i >= Len(code_line) THEN col
    ELSE LET d == IF code_line[i + 1] = "\t" THEN diff + tab_width ELSE diff
         IN  IF col - d <= i THEN i
             ELSE TabLoopWholeWidth(col, tab_width, code_line, i + 1, d)

\* lines 299-307 of lint: the column in code_line of a column counted with tabs tab_width
\* wide; i counts from 0
RECURSIVE TabLoop(_, _, _, _, _)
TabLoop(col, tab_width, code_line, i, diff) ==
    IF i >= Len(code_line) THEN col
    ELSE LET d == IF code_line[i + 1] = "\t" THEN diff + (tab_width - 1) ELSE diff
         IN  IF col - d <= i THEN i ELSE TabLoop(col, tab_width, code_line, i + 1, d)

\* the text of line row of code, which lint cuts out with highlight.full_line(row);
\* lines are counted from 0 and "\n" ends a line
RECURSIVE LineOf(_, _, _)
LineOf(code, row, acc) ==
    IF code = <<>> THEN (IF row = 0 THEN acc ELSE <<>>)
    ELSE IF Head(code) = "\n"
         THEN (IF row = 0 THEN acc ELSE LineOf(Tail(code), row - 1, <<>>))
         ELSE LineOf(Tail(code), row, IF row = 0 THEN Append(acc, Head(code)) ELSE acc)

\* error storing a new list at the row whether or not the row has one
error_overwrites(errors, line, col, msg) ==
    LET e == <<IF col.k = "int" THEN col.v ELSE 0, msg>>
    IN  [r \in DOMAIN errors \cup {line} |-> IF r = line THEN <<e>> ELSE errors[r]]

\* Linter.error(self, line, col, error), lines 341-348: self.errors afterwards
error(errors, line, col, msg) ==
    LET e == <<IF col.k = "int" THEN col.v ELSE 0, msg>>
    IN  IF line \in DOMAIN errors
        THEN [errors EXCEPT ![line] = Append(errors[line], e)]
        ELSE [r \in DOMAIN errors \cup {line} |-> IF r = line THEN <<e>> ELSE errors[r]]

\* lines 292-315 of lint: the loop over the results of find_errors, from result k on
RECURSIVE LintLoop(_, _, _, _, _)
LintLoop(errors, results, k, tab_width, code) ==
    IF k > Len(results) THEN [raised |-> None, errors |-> errors]
    ELSE LET r == results[k] IN
         IF r.raised # None THEN [raised |-> r.raised, errors |-> errors]
         ELSE IF r.match /\ r.row.k # "none"
         THEN LET code_line == LineOf(code, r.row.v, <<>>)
                  col == IF r.col.k = "int" /\ tab_width > 1
                         THEN [k |-> "int", v |-> TabLoop(r.col.v, tab_width, code_line, 0, 0)]
                         ELSE r.col
              IN  IF r.col.k = "empty" /\ tab_width > 1 /\ code_line # <<>>
                  THEN [raised |-> "TypeError", errors |-> errors]
                  ELSE LintLoop(error(errors, r.row.v, col, r.error), results, k + 1,
                                tab_width, code)
         ELSE LintLoop(errors, results, k + 1, tab_width, code)

\* Linter.lint(self), lines 270-315, on an instance whose errors is errors: what it
\* raises, if anything, and self.errors afterwards. output is what run returns; an
\* uncompiled regex is a str, which has neither finditer nor match.
lint(l, errors, code, output) ==
    IF ~(Registry[l.def].language.v # <<>> /\ Registry[l.def].cmd # "" /\ l.regex # "")
    THEN [raised |-> "NotImplementedError", errors |-> errors]
    ELSE IF Registry[l.def].cmd = "callable, returns nothing" \/ output = <<>>
    THEN [raised |-> None, errors |-> errors]
    ELSE IF l.regex = "str"
    THEN [raised |-> "AttributeError", errors |-> errors]
    ELSE LintLoop(errors, find_errors(Registry[l.def].multiline, output), 1,
                  Registry[l.def].tab_width, code)

\* Linter.reset(self, code, filename), lines 263-268
reset(l, code, filename) ==
    [l EXCEPT !.haserrors = TRUE, !.errors = EmptyMap,
              !.filename = IF filename # None THEN filename ELSE l.filename]

-----------------------------------------------------------------------------
(* lint_view (worker thread)                                                *)

\* the texts lint_view is called with
Codes == { <<>>, <<"x", "\n", "y">> }

\* the file names lint_view is called with
FileNames == { None, "a.py" }

\* what run returns: nothing (the command failed or printed nothing), or lines of output
Outputs ==
    { <<>>,
      << Hit(Num(1), NoGroup, "a") >>,
      << Hit(Num(2), Num(1), "b"), Miss, Hit(Num(1), NoGroup, "b") >> }

\* the most regions a selector has in the sections the model draws from
MaxRegions == 2

\* what the runs of one linter on up to MaxRegions regions return
OutputSeqs(O) == UNION { [1..n -> O] : n \in 0..MaxRegions }

NoSections == [s \in {} |-> <<>>]
Region(line_offset, left, right) == [line_offset |-> line_offset, left |-> left, right |-> right]

\* n regions of the text, one character each, listed from the last line to the first
RegionList(n) == [k \in 1..n |-> Region(n - k, k - 1, k)]

\* the sections lint_view is called with: selector -> regions (line_offset, left, right)
SectionsSet ==
    {NoSections} \cup { [s \in {"source.php"} |-> RegionList(n)] : n \in 0..MaxRegions }

\* code[left:right]
Slice(code, left, right) ==
    LET a == IF left < Len(code) THEN left ELSE Len(code)
        b == IF right < Len(code) THEN right ELSE Len(code)
    IN  SubSeq(code, a + 1, b)

\* lines 219-221: the call, and the return when there is nothing to lint
LintViewCall(vid, filename, code, sections) ==
    /\ lv.pc = "idle"
    /\ lv' = [LvIdle EXCEPT !.vid = vid, !.code = code, !.sections = sections,
                            !.filename = filename,
                            !.pc = IF code = <<>> \/ vid \notin DOMAIN linters
                                   THEN "done" ELSE "get"]
    /\ UNCHANGED <<views, linters, inst, userset, defaults, prev, gone, rl, fn>>

\* lines 223-228: list(persist.linters.get(vid)); list(None) raises TypeError
LintViewGet ==
    /\ lv.pc = "get"
    /\ IF lv.vid \notin DOMAIN linters
       THEN lv' = [lv EXCEPT !.pc = "raised", !.raised = "TypeError"]
       ELSE \E order \in Orders(linters[lv.vid]) :
              lv' = [lv EXCEPT !.linters = order, !.i = 1,
                               !.pc = IF order = <<>> THEN "done" ELSE "whole",
                               !.filename = IF lv.filename # None THEN lv.filename
                                            ELSE "untitled"]
    /\ UNCHANGED <<views, linters, inst, userset, defaults, prev, gone, rl, fn>>

\* lines 232-238: one turn of the loop over the linters of the view
LintViewWhole(output) ==
    /\ lv.pc = "whole"
    /\ lv.i <= Len(lv.linters)
    /\ LET l == lv.linters[lv.i]
           cls == inst[l].def
       IN  /\ defaults' = DefaultsAfter(cls, defaults, userset)
           /\ IF Disabled(cls, defaults, userset) \/ Registry[cls].selector # None
              THEN /\ output = <<>>
                   /\ lv' = [lv EXCEPT !.i = lv.i + 1]
                   /\ UNCHANGED inst
              ELSE LET r == lint(inst[l], EmptyMap, lv.code, output) IN
                     /\ inst' = [inst EXCEPT ![l] = [reset(inst[l], lv.code, lv.filename)
                                                       EXCEPT !.errors = r.errors]]
                     /\ lv' = IF r.raised # None
                              THEN [lv EXCEPT !.pc = "raised", !.raised = r.raised]
                              ELSE [lv EXCEPT !.i = lv.i + 1]
    /\ UNCHANGED <<views, linters, userset, prev, gone, rl, fn>>

\* line 240, Linter.get_selectors(vid) and in it Linter.get_linters(vid), line 204: the
\* test vid in persist.linters
LintViewSelectors ==
    /\ lv.pc = "whole"
    /\ lv.i > Len(lv.linters)
    /\ lv' = [lv EXCEPT !.i = 1,
                        !.pc = IF lv.vid \in DOMAIN linters THEN "selectors" ELSE "scoped"]
    /\ UNCHANGED <<views, linters, inst, userset, defaults, prev, gone, rl, fn>>

\* lines 205 and 212-216: tuple(persist.linters[vid]), which raises KeyError when the
\* entry is gone, and of it the linters that have a selector
LintViewGetSelectors ==
    /\ lv.pc = "selectors"
    /\ IF lv.vid \notin DOMAIN linters
       THEN lv' = [lv EXCEPT !.pc = "raised", !.raised = "KeyError"]
       ELSE \E order \in Orders({ l \in linters[lv.vid] :
                                      Registry[inst[l].def].selector # None }) :
              lv' = [lv EXCEPT !.selectors = order, !.pc = "scoped"]
    /\ UNCHANGED <<views, linters, inst, userset, defaults, prev, gone, rl, fn>>

\* lines 249-256 keeping the row a region before already wrote
RECURSIVE LintRegionsFirstWins(_, _, _, _, _, _)
LintRegionsFirstWins(l, code, regions, outs, k, errors) ==
    IF k > Len(regions) THEN [raised |-> None, errors |-> errors]
    ELSE LET reg == regions[k]
             r == lint(l, EmptyMap, Slice(code, reg.left, reg.right), outs[k])
         IN  IF r.raised # None THEN [raised |-> r.raised, errors |-> r.errors]
             ELSE LintRegionsFirstWins(l, code, regions, outs, k + 1,
                     [line \in DOMAIN errors
                                 \cup { row + reg.line_offset : row \in DOMAIN r.errors } |->
                        IF line \in DOMAIN errors
                        THEN errors[line]
                        ELSE r.errors[line - reg.line_offset]])

\* lines 249-256: the regions of one selector, from region k on, run with the outputs
\* outs; errors is the dict the results are merged into
RECURSIVE LintRegions(_, _, _, _, _, _)
LintRegions(l, code, regions, outs, k, errors) ==
    IF k > Len(regions) THEN [raised |-> None, errors |-> errors]
    ELSE LET reg == regions[k]
             r == lint(l, EmptyMap, Slice(code, reg.left, reg.right), outs[k])
         IN  IF r.raised # None THEN [raised |-> r.raised, errors |-> r.errors]
             ELSE LintRegions(l, code, regions, outs, k + 1,
                     [line \in DOMAIN errors
                                 \cup { row + reg.line_offset : row \in DOMAIN r.errors } |->
                        IF line - reg.line_offset \in DOMAIN r.errors
                        THEN r.errors[line - reg.line_offset]
                        ELSE errors[line]])

\* history: what the run on each region recorded, with the region's line offset
Produced(l, code, regions, outs) ==
    [k \in 1..Len(regions) |->
       [line_offset |-> regions[k].line_offset,
        errors |-> lint(l, EmptyMap, Slice(code, regions[k].left, regions[k].right),
                        outs[k]).errors]]

\* lines 242-258: one turn of the loop over the selectors
LintViewScoped(outs) ==
    /\ lv.pc = "scoped"
    /\ lv.i <= Len(lv.selectors)
    /\ LET l == lv.selectors[lv.i]
           sel == Registry[inst[l].def].selector
       IN  IF sel \in DOMAIN lv.sections
           THEN /\ Len(outs) = Len(lv.sections[sel])
                /\ LET r == LintRegions(inst[l], lv.code, lv.sections[sel], outs, 1, EmptyMap)
                  IN  /\ inst' = [inst EXCEPT ![l] = [reset(inst[l], lv.code, lv.filename)
                                                        EXCEPT !.errors = r.errors]]
                      /\ lv' = IF r.raised # None
                               THEN [lv EXCEPT !.pc = "raised", !.raised = r.raised,
                                               !.linters = Append(lv.linters, l)]
                               ELSE [lv EXCEPT !.i = lv.i + 1,
                                               !.linters = Append(lv.linters, l),
                                               !.regions = Produced(inst[l], lv.code,
                                                                    lv.sections[sel], outs),
                                               !.merged = l]
           ELSE /\ outs = <<>>
                /\ lv' = [lv EXCEPT !.i = lv.i + 1, !.linters = Append(lv.linters, l)]
                /\ UNCHANGED inst
    /\ UNCHANGED <<views, linters, userset, defaults, prev, gone, rl, fn>>

\* line 261 storing the list it hands over as the view's entry
LintViewCallbackMerges ==
    /\ lv.pc = "scoped"
    /\ lv.i > Len(lv.selectors)
    /\ lv' = [lv EXCEPT !.pc = "done", !.callbacks = lv.callbacks + 1]
    /\ linters' = With(linters, lv.vid, { lv.linters[k] : k \in 1..Len(lv.linters) })
    /\ UNCHANGED <<views, inst, userset, defaults, prev, gone, rl, fn>>

\* line 261 indented into the loop over the selectors
LintViewCallbackInLoop ==
    /\ lv.pc = "scoped"
    /\ lv' = [lv EXCEPT !.pc = "done", !.callbacks = lv.callbacks + 1]
    /\ UNCHANGED <<views, linters, inst, userset, defaults, prev, gone, rl, fn>>

\* line 261: callback(cls.get_view(vid), linters)
LintViewCallback ==
    /\ lv.pc = "scoped"
    /\ lv.i > Len(lv.selectors)
    /\ lv' = [lv EXCEPT !.pc = "done", !.callbacks = lv.callbacks + 1]
    /\ UNCHANGED <<views, linters, inst, userset, defaults, prev, gone, rl, fn>>

\* the call is over: it returned or raised, and its frame is dropped
LintViewEnd ==
    /\ lv.pc \in {"done", "raised"}
    /\ lv' = LvIdle
    /\ gone' = {}
    /\ inst' = Collect(inst, linters, rl, lv')
    /\ UNCHANGED <<views, linters, userset, defaults, prev, rl, fn>>

-----------------------------------------------------------------------------

\* the calls and steps of the main thread
MainStep(V, L, M) ==
    \/ \E vid \in V, label \in L, reassign \in BOOLEAN :
         Assign(vid, label, reassign)
    \/ \E vid \in V : Remove(vid)
    \/ \E mod \in M : ReloadCall(mod)
    \/ ReloadNextView
    \/ ReloadVisit
    \/ ReloadAdd
    \/ ReloadReturn

\* the call and steps of the worker thread, with the inputs drawn from F, S and O
WorkerStep(V, F, S, O) ==
    \/ \E vid \in V, filename \in F, code \in Codes, sections \in S :
         LintViewCall(vid, filename, code, sections)
    \/ LintViewGet
    \/ \E output \in O : LintViewWhole(output)
    \/ LintViewSelectors
    \/ LintViewGetSelectors
    \/ \E outs \in OutputSeqs(O) : LintViewScoped(outs)
    \/ LintViewCallback
    \/ LintViewEnd

\* The two threads side by side: a step of either may follow a step of the other. One
\* view with an HTML, a PHP or a plain text syntax or none, one file name, whole reloads,
\* at most one region, and a linter prints nothing or one line.
Next ==
    \/ MainStep({1},
                { NoSyntax,
                  Str(<<"Packages", "/", "HTML", "/", "HTML", ".tmLanguage">>),
                  Str(<<"Packages", "/", "PHP", "/", "PHP", ".tmLanguage">>),
                  Str(<<"Packages", "/", "Text", "/", "Plain text", ".tmLanguage">>) },
                {None})
    \/ WorkerStep({1}, {"a.py"}, {NoSections, [s \in {"source.php"} |-> RegionList(1)]},
                  {<<>>, << Hit(Num(1), NoGroup, "a") >>})

Spec == Init /\ [][Next]_vars

\* The calls one after the other, on one view: a call to assign, remove or reload is made
\* when no lint_view is under way and runs to its end before the next call; the settings
\* change between calls.
NextCalls ==
    \/ lv.pc = "idle" /\ MainStep({1}, SyntaxLabels, Modules \cup {None})
    \/ rl.pc = "idle" /\ WorkerStep({1}, FileNames, SectionsSet, Outputs)
    \/ rl.pc = "idle" /\ lv.pc = "idle" /\ \E u \in UserSettings : ChangeSettings(u)

SpecCalls == Init /\ [][NextCalls]_vars

\* assign, remove and reload on several views, with no lint_view
NextViews == MainStep(Vids, SyntaxLabels, Modules \cup {None})

SpecViews == Init /\ [][NextViews]_vars

-----------------------------------------------------------------------------
(* One method called on its own: find_errors, and reset followed by lint    *)

\* the greatest line number and the greatest column number a linter reports
MaxRow == 2
MaxCol == 6

\* the col group matched the empty string
EmptyGroup == [k |-> "empty", v |-> 0]

\* what the regex finds in one line of output: no match, a match without the line group,
\* or a match with a line number, a message and no column, an empty one or a number
FnLines ==
    { Miss, Hit(NoGroup, NoGroup, "a") }
      \cup { Hit(Num(r), c, msg) :
                r \in 1..MaxRow,
                c \in {NoGroup, EmptyGroup} \cup { Num(n) : n \in 0..MaxCol },
                msg \in {"a", "b"} }

\* what run returns: no line, one line or two
FnOutputs == {<<>>} \cup { <<a>> : a \in FnLines } \cup { <<a, b>> : a, b \in FnLines }

\* the texts linted: nothing, a line without a tab, a line that starts with a tab, and
\* two lines of which the second starts with a tab
FnCodes ==
    { <<>>, <<"f", "o", "o">>, <<"\t", "f", "o", "o">>, <<"x", "\n", "\t", "y">> }

\* linter.find_errors(output) on an instance of cls
CallFindErrors(cls, output) ==
    /\ fn.op = "none"
    /\ fn' = [ op |-> "find_errors", def |-> cls, output |-> output,
               result |-> find_errors(Registry[cls].multiline, output) ]
    /\ UNCHANGED <<views, linters, inst, userset, defaults, prev, gone, rl, lv>>

\* linter.reset(code) and linter.lint() on a new instance of cls, whose run returns output
CallLint(cls, code, output) ==
    /\ fn.op = "none"
    /\ LET l == reset(NewLinter(cls, 1, Registry[cls].language.v, None), code, None)
           r == lint(l, l.errors, code, output)
       IN  fn' = [ op |-> "lint", def |-> cls, code |-> code, output |-> output,
                   raised |-> r.raised, errors |-> r.errors ]
    /\ UNCHANGED <<views, linters, inst, userset, defaults, prev, gone, rl, lv>>

\* the call returns
FnReturn ==
    /\ fn.op # "none"
    /\ fn' = FnIdle
    /\ UNCHANGED <<views, linters, inst, userset, defaults, prev, gone, rl, lv>>

\* one call at a time, with every class, text and output
NextFn ==
    \/ /\ fn.op = "none"
       /\ \E cls \in Names, output \in FnOutputs : CallFindErrors(cls, output)
    \/ /\ fn.op = "none"
       /\ \E cls \in Names, code \in FnCodes, output \in FnOutputs :
            CallLint(cls, code, output)
    \/ FnReturn

SpecFn == Init /\ [][NextFn]_vars

-----------------------------------------------------------------------------
(* C1. Assignment idempotence: when assign(view, reassign=False) is called  *)
(* on a view right after an assign on that view, and the view's syntax      *)
(* setting is the same in both calls, the second call leaves the view's     *)
(* entry and every linter instance as they were: the same instances, none   *)
(* created again, their errors kept.                                        *)
C1_AssignTwice ==
    [][ \A vid \in Vids, label \in SyntaxLabels :
          ( /\ prev.vid = vid
            /\ views[vid] = label
            /\ Assign(vid, label, FALSE) )
          => /\ linters' = linters
             /\ inst' = inst ]_vars

\* the second of two assigns in a row was made on a view whose linter holds errors
C1_Witness ==
    /\ prev.again
    /\ prev.vid \in DOMAIN linters
    /\ \E l \in linters[prev.vid] : inst[l].errors # EmptyMap

-----------------------------------------------------------------------------
\* s ends in "/", a name without "/" and ".tmLanguage"
HasGrammarSuffix(s) ==
    /\ Len(s) >= 3
    /\ s[Len(s)] = ".tmLanguage"
    /\ s[Len(s) - 1] \notin {"/", ".tmLanguage"}
    /\ s[Len(s) - 2] = "/"

Unresolvable(label) == ~label.set \/ label.s = <<>> \/ ~HasGrammarSuffix(label.s)

(* C2. A view whose last assign found no syntax it could resolve (no syntax *)
(* setting, an empty one, or one that does not end in "/<name>.tmLanguage") *)
(* has no entry in persist.linters, not even an empty set, whatever assign, *)
(* remove, reload and lint_view calls were made.                            *)
C2_NoEntryWithoutSyntax ==
    \A vid \in DOMAIN views : Unresolvable(views[vid]) => vid \notin DOMAIN linters

\* an assign has just removed an entry that held linters, for a setting that is there
\* but does not match
C2_Witness ==
    /\ prev.vid \in DOMAIN views
    /\ prev.had
    /\ views[prev.vid].set
    /\ views[prev.vid].s # <<>>
    /\ Unresolvable(views[prev.vid])
    /\ prev.vid \notin DOMAIN linters

-----------------------------------------------------------------------------
\* the languages a class declares
Languages(cls) ==
    IF Registry[cls].language.tuple
    THEN { <<Registry[cls].language.v[i]>> : i \in 1..Len(Registry[cls].language.v) }
    ELSE { Registry[cls].language.v }

SameButCase(a, b) == LowerStr(a) = LowerStr(b)

ClassesFor(syntax) == { n \in Names : \E lang \in Languages(n) : SameButCase(lang, syntax) }

\* reload has taken an instance out of the entry of vid and not yet put its successor in
MidReload(vid) == rl.pc = "add" /\ rl.vid = vid

-----------------------------------------------------------------------------
(* C4. No resurrection: when the entry of a view is removed (by remove, or  *)
(* by an assign that removes it) while a lint_view pass over that view is   *)
(* under way, and no later call on the main thread assigns the view again,  *)
(* the view has no entry once the pass has invoked its callback; and no     *)
(* step of lint_view creates or rewrites an entry of the mapping.           *)
(* gone holds the views whose entry was removed under the pass.             *)
C4_NoResurrection ==
    /\ [](lv.pc = "done" /\ lv.callbacks = 1 /\ lv.vid \in gone
            => lv.vid \notin DOMAIN linters)
    /\ [][lv' # lv => linters' = linters]_vars

\* the entry was removed under a pass that went on to invoke its callback with the
\* instances of its snapshot
C4_Witness ==
    /\ lv.pc = "done"
    /\ lv.callbacks = 1
    /\ lv.vid \in gone
    /\ lv.linters # <<>>
    /\ lv.vid \notin DOMAIN linters

-----------------------------------------------------------------------------
\* the classes of the instances listed in q
ClassesOf(q) == { inst[q[k]].def : k \in 1..Len(q) }

(* C5. Atomic mutation: whenever a reader takes its snapshot of a view's    *)
(* set (lint_view at line 223, get_linters at line 205), the snapshot is a  *)
(* complete set: it holds an instance of every class that can lint the      *)
(* view's syntax (for get_selectors, of every such class with a selector),  *)
(* never a set from which an instance was removed and not yet replaced.     *)
C5_ReaderSeesWholeSet ==
    [][ /\ ( /\ lv.pc = "get"
             /\ lv'.pc \in {"whole", "done"}
             /\ lv.vid \in DOMAIN linters )
           => ClassesOf(lv'.linters) = ClassesFor(SYNTAX_RE(views[lv.vid].s))
        /\ ( /\ lv.pc = "selectors"
             /\ lv'.pc = "scoped" )
           => ClassesOf(lv'.selectors) =
                { c \in ClassesFor(SYNTAX_RE(views[lv.vid].s)) :
                      Registry[c].selector # None } ]_vars

-----------------------------------------------------------------------------
-----------------------------------------------------------------------------
(* C7. Disabled checkers are skipped: no turn of either loop of lint_view   *)
(* resets or runs an instance whose effective settings have disable = true, *)
(* whole-buffer or scoped: its diagnostic map stays what it was.            *)
C7_DisabledSkipped ==
    [][ \A l \in Ids :
          ( /\ inst[l] # NoInst
            /\ lv.pc \in {"whole", "scoped"}
            /\ lv' # lv
            /\ Disabled(inst[l].def, defaults, userset) )
          => inst'[l].errors = inst[l].errors ]_vars

-----------------------------------------------------------------------------
(* C8. A failed run keeps the diagnostics: when the run of a whole-buffer   *)
(* checker yields no output, the checker's diagnostic map after that turn   *)
(* of the loop is the map it held before the pass.                          *)
C8_FailedRunKeepsDiagnostics ==
    [][ \A l \in Ids :
          ( /\ lv.pc = "whole"
            /\ lv.i <= Len(lv.linters)
            /\ l = lv.linters[lv.i]
            /\ LintViewWhole(<<>>)
            /\ lv'.pc = "whole" )
          => inst'[l].errors = inst[l].errors ]_vars

-----------------------------------------------------------------------------
(* C9. A checker whose pattern did not compile never aborts a pass: no      *)
(* lint_view call is ended by an exception raised in the run of such a      *)
(* checker, and such a checker records no diagnostics.                      *)
C9_BadPatternNeverAborts ==
    \A k \in 1..Len(lv.linters) :
       inst[lv.linters[k]].regex = "str" =>
          /\ ~( /\ lv.pc = "raised"
                /\ lv.selectors = <<>>
                /\ lv.i = k )
          /\ inst[lv.linters[k]].errors = EmptyMap

-----------------------------------------------------------------------------
\* the regions of the history h that recorded diagnostics at row r - line_offset
ProducedAt(h, r) == { k \in 1..Len(h) : r - h[k].line_offset \in DOMAIN h[k].errors }

\* the greatest member of a non-empty set of numbers
Last(K) == CHOOSE k \in K : \A j \in K : j <= k

\* the map that holds, at every row some region of h produced, what the last such region
\* recorded there
LastRegionWins(h) ==
    [ r \in UNION { { row + h[k].line_offset : row \in DOMAIN h[k].errors } :
                       k \in 1..Len(h) } |->
        LET k == Last(ProducedAt(h, r)) IN h[k].errors[r - h[k].line_offset] ]

(* C10. Region merge: once lint_view has run a scoped checker on the        *)
(* regions of its selector in list order, the checker's diagnostic map      *)
(* holds, at every row r, the diagnostics of the last region of the list    *)
(* that recorded diagnostics at row r - line_offset; rows only one region   *)
(* produced are all kept, and no other row is in the map.                   *)
C10_LastRegionWins ==
    (lv.merged # NoId /\ lv.pc \in {"scoped", "done"})
       => inst[lv.merged].errors = LastRegionWins(lv.regions)

\* two regions recorded different diagnostics for the same shifted row, and one row was
\* produced by one region only
C10_Witness ==
    /\ lv.merged # NoId
    /\ lv.pc = "done"
    /\ Len(lv.regions) = 2
    /\ \E r \in DOMAIN inst[lv.merged].errors :
         /\ ProducedAt(lv.regions, r) = {1, 2}
         /\ lv.regions[1].errors[r - lv.regions[1].line_offset]
               # lv.regions[2].errors[r - lv.regions[2].line_offset]
         /\ inst[lv.merged].errors[r] = lv.regions[2].errors[r - lv.regions[2].line_offset]
    /\ \E r \in DOMAIN inst[lv.merged].errors : ProducedAt(lv.regions, r) = {2}

-----------------------------------------------------------------------------
\* the lines of output in which the pattern occurs
Occurrences(output) == { i \in 1..Len(output) : output[i].m }

(* C11. Multiline extraction: for a checker with multiline = true and a     *)
(* non-empty output with K occurrences of the pattern, find_errors yields   *)
(* K results when K > 0, and one empty result (no match, row absent) when   *)
(* K = 0.                                                                   *)
C11_MultilineYield ==
    ( /\ fn.op = "find_errors"
      /\ Registry[fn.def].multiline
      /\ fn.output # <<>> )
    => IF Occurrences(fn.output) # {}
       THEN /\ Len(fn.result) = Cardinality(Occurrences(fn.output))
            /\ \A i \in 1..Len(fn.result) : fn.result[i].match
       ELSE /\ Len(fn.result) = 1
            /\ ~fn.result[1].match
            /\ fn.result[1].row.k = "none"

-----------------------------------------------------------------------------
\* the call under way is reset and lint on a class that can run (language, cmd and a
\* compiled regex) and its run printed the one line: a match with line, col and error
RanOnOneLine ==
    /\ fn.op = "lint"
    /\ Registry[fn.def].cmd = "ok"
    /\ Registry[fn.def].regex = "ok"
    /\ Len(fn.output) = 1
    /\ fn.output[1].m
    /\ fn.output[1].line.k = "str"
    /\ fn.output[1].col.k = "str"

HasTab(code_line) == \E i \in 1..Len(code_line) : code_line[i] = "\t"

(* C12. Tab correction is the identity without tabs: when the line of the   *)
(* text a match points at contains no tab, then for every tab width and     *)
(* every column c extraction produces (c = -1 from a reported column 0      *)
(* included) the column lint records is c.                                  *)
C12_NoTabIdentity ==
    ( /\ RanOnOneLine
      /\ ~HasTab(LineOf(fn.code, fn.output[1].line.v - 1, <<>>)) )
    => /\ fn.raised = None
       /\ fn.errors = [ r \in {fn.output[1].line.v - 1} |->
                          << <<fn.output[1].col.v - 1, fn.output[1].error>> >> ]

-----------------------------------------------------------------------------
\* lint ran with tab width 4 on the line made of a tab and "foo", for a match in that line
\* at raw column 5 (reported as column 6, counted from 1)
TabFooAtFive ==
    /\ RanOnOneLine
    /\ Registry[fn.def].tab_width = 4
    /\ fn.code = <<"\t", "f", "o", "o">>
    /\ fn.output[1].line.v = 1
    /\ fn.output[1].col.v = 6

(* C13, as stated. For the line "\tfoo", tab width 4 and raw column 5 the   *)
(* column-correction loop of lint gives column 4.                           *)
C13_TabExampleIsFour ==
    TabFooAtFive => fn.errors[0][1][1] = 4

(* C13, amended. For the line "\tfoo", tab width 4 and raw column 5 the     *)
(* column-correction loop of lint gives column 2: the first index i with    *)
(* rawColumn - delta <= i, the tab having added 3 to delta.                 *)
C13_TabExampleIsTwo ==
    TabFooAtFive => /\ fn.raised = None
                    /\ DOMAIN fn.errors = {0}
                    /\ fn.errors[0] = << <<2, fn.output[1].error>> >>

C13_Witness ==
    /\ TabFooAtFive
    /\ fn.errors[0][1][1] = 2

-----------------------------------------------------------------------------
(* C14. End-to-end conversion: for a single-line checker with tab width 1,  *)
(* an output line reporting line L >= 1, column C >= 0 and message M gives, *)
(* after reset and lint, a diagnostic map with the one row L - 1 holding    *)
(* the one entry (C - 1, M); adding 1 to both recovers L and C.             *)
C14_OneBasedToZeroBased ==
    ( /\ RanOnOneLine
      /\ ~Registry[fn.def].multiline
      /\ Registry[fn.def].tab_width = 1 )
    => /\ fn.raised = None
       /\ DOMAIN fn.errors = {fn.output[1].line.v - 1}
       /\ \A r \in DOMAIN fn.errors :
            /\ Len(fn.errors[r]) = 1
            /\ r + 1 = fn.output[1].line.v
            /\ fn.errors[r][1][1] + 1 = fn.output[1].col.v
            /\ fn.errors[r][1][2] = fn.output[1].error

\* a line reporting line 2 and column 0 was recorded at row 1 with column -1
C14_Witness ==
    /\ RanOnOneLine
    /\ ~Registry[fn.def].multiline
    /\ Registry[fn.def].tab_width = 1
    /\ fn.output[1].line.v = 2
    /\ fn.output[1].col.v = 0
    /\ 1 \in DOMAIN fn.errors
    /\ fn.errors[1][1][1] = -1

-----------------------------------------------------------------------------
\* the messages of the usable matches of output (a match with a line number) for row, in
\* the order of the output
MessagesAt(output, row) ==
    LET usable == SelectSeq(output, LAMBDA x : x.m /\ x.line.k = "str" /\ x.line.v - 1 = row)
    IN  [i \in 1..Len(usable) |-> usable[i].error]

\* the rows the usable matches of output name
RowsOf(output) ==
    { output[i].line.v - 1 : i \in { j \in 1..Len(output) : output[j].m /\ output[j].line.k = "str" } }

(* C17. Append per row: after a run of a checker that ended without an      *)
(* exception, the diagnostic map has the rows of the usable matches and no  *)
(* other, and the list at each row has one entry per usable match for that  *)
(* row, in the order of the output: none is overwritten or dropped.         *)
C17_AppendPerRow ==
    ( /\ fn.op = "lint"
      /\ Registry[fn.def].cmd = "ok"
      /\ Registry[fn.def].regex = "ok"
      /\ fn.raised = None )
    => /\ DOMAIN fn.errors = RowsOf(fn.output)
       /\ \A r \in DOMAIN fn.errors :
            /\ Len(fn.errors[r]) = Len(MessagesAt(fn.output, r))
            /\ \A i \in 1..Len(fn.errors[r]) :
                 fn.errors[r][i][2] = MessagesAt(fn.output, r)[i]

\* two matches for one row with different messages were both recorded, in their order
C17_Witness ==
    /\ fn.op = "lint"
    /\ fn.raised = None
    /\ Len(fn.output) = 2
    /\ \E r \in DOMAIN fn.errors :
         /\ Len(fn.errors[r]) = 2
         /\ fn.errors[r][1][2] = "b"
         /\ fn.errors[r][2][2] = "a"
         /\ fn.errors[r][1][1] # fn.errors[r][2][1]

-----------------------------------------------------------------------------
\* the instance lacks one of language, cmd and regex
MissingAttribute(l) ==
    \/ Registry[l.def].language.v = <<>>
    \/ Registry[l.def].cmd = ""
    \/ l.regex = ""

(* C15. A contract violation halts only the offender: when the loop over    *)
(* the view's linters reaches an instance that lacks one of language, cmd   *)
(* and regex, the pass goes on with the next linter (and so runs the        *)
(* others and invokes the callback); it is not ended there.                 *)
C15_ViolationHaltsOnlyOffender ==
    [][ ( /\ lv.pc = "whole"
          /\ lv.i <= Len(lv.linters)
          /\ MissingAttribute(inst[lv.linters[lv.i]])
          /\ lv' # lv )
        => /\ lv'.pc = "whole"
           /\ lv'.i = lv.i + 1 ]_vars

-----------------------------------------------------------------------------
(* C20. No duplicates: the list lint_view passes to the callback holds      *)
(* every instance of its snapshot of the view's set, and no instance twice. *)
C20_CallbackListNoDuplicates ==
    lv.callbacks = 1 =>
       \A i, j \in 1..Len(lv.linters) : lv.linters[i] = lv.linters[j] => i = j

-----------------------------------------------------------------------------
(* C16. remove clears, then deletes: a remove(vid) on a view that has an    *)
(* entry deletes the entry, and clear has been called on every instance     *)
(* that was in it when it is deleted; a remove on a view without entry      *)
(* changes neither the mapping nor any instance nor any view.               *)
C16_RemoveClearsThenDeletes ==
    [][ \A vid \in Vids :
          Remove(vid) =>
             IF vid \in DOMAIN linters
             THEN /\ vid \notin DOMAIN linters'
                  /\ ~prev'.orphans
                  /\ \A l \in linters[vid] : inst'[l] # NoInst => inst'[l].cleared
             ELSE /\ linters' = linters
                  /\ inst' = inst
                  /\ views' = views ]_vars

\* remove has deleted the entry of a view under a pass that holds its instances, all of
\* them cleared; the view still has the syntax its linters were assigned for
C16_Witness ==
    /\ lv.vid \in gone
    /\ prev.vid = 0
    /\ ~Unresolvable(views[lv.vid])
    /\ lv.vid \notin DOMAIN linters
    /\ lv.linters # <<>>
    /\ \A k \in 1..Len(lv.linters) : inst[lv.linters[k]].cleared

-----------------------------------------------------------------------------
(* C19. No instance leaves the mapping uncleared: after a call of assign or *)
(* remove, every instance the call took out of the mapping (assign          *)
(* replacing a view's non-empty set with a newly built one included) had    *)
(* clear called on it before the mapping was changed.                       *)
C19_ClearedBeforeUnreachable ==
    ~prev.orphans

-----------------------------------------------------------------------------
\* the instances of view v: those of its set, and the one reload has taken out of the set
\* and is about to replace
InstancesOf(v) == linters[v] \cup (IF MidReload(v) THEN {rl.cur} ELSE {})

\* what the instances of view v are bound to: definition, view, syntax and file name
Bindings(v) ==
    { <<inst[l].def, inst[l].view, inst[l].syntax, inst[l].filename>> : l \in InstancesOf(v) }

(* C18. reload preserves the shape of the mapping: no step of reload(mod),  *)
(* and so no reload as a whole, changes the views that have an entry, the   *)
(* number of instances of a view, or the definition, view, syntax and file  *)
(* name the instances of a view are bound to; and when a module is given,   *)
(* an instance of another module stays in its set, the very same instance   *)
(* with every field, its diagnostics included, unchanged.                   *)
C18_ReloadPreservesShape ==
    [][ rl' # rl =>
          /\ DOMAIN linters' = DOMAIN linters
          /\ \A v \in DOMAIN linters :
               /\ Cardinality(InstancesOf(v)') = Cardinality(InstancesOf(v))
               /\ Bindings(v)' = Bindings(v)
               /\ \A l \in InstancesOf(v) :
                    (rl.mod # None /\ Registry[inst[l].def].module # rl.mod)
                      => /\ l \in linters'[v]
                         /\ inst'[l] = inst[l] ]_vars

\* a reload of one module is at its return: in the set of some view the instance of that
\* module is a new one, drawn, and the instance of another module is the one assign made,
\* with the diagnostics an earlier pass recorded
C18_Witness ==
    /\ rl.pc = "iter"
    /\ rl.mod # None
    /\ rl.vids = {}
    /\ rl.pending = {}
    /\ \E v \in DOMAIN linters : \E l1, l2 \in linters[v] :
         /\ Registry[inst[l1].def].module = rl.mod
         /\ l1[2] = 2
         /\ ~inst[l1].cleared
         /\ inst[l1].filename # None
         /\ Registry[inst[l2].def].module # rl.mod
         /\ l2[2] = 1
         /\ inst[l2].errors # EmptyMap

====
